---- MODULE Spec2Model ----
(***************************************************************************)
(* Clarity Engine: the scoring, narrative and report-export core of        *)
(* src/src/utils/calculator.js.                                            *)
(*                                                                         *)
(* JavaScript Numbers are IEEE-754 doubles.  The scorer divides,           *)
(* multiplies and subtracts them and then rounds with toFixed(1), so the   *)
(* result depends on the rounding of every intermediate operation.  The    *)
(* model therefore carries doubles exactly: a double is a sign, a 53-bit   *)
(* significand held as a little-endian sequence of 14-bit limbs, and a     *)
(* binary exponent.  Every arithmetic operation computes the exact result  *)
(* and rounds it to nearest, ties to even, as the language does.           *)
(* Exponents stay far inside the normal range for the values handled here  *)
(* (no overflow, no subnormals); NaN and the sign of zero do not arise for *)
(* integer weights, scores and risk factors.                               *)
(***************************************************************************)
EXTENDS Integers, Sequences, FiniteSets, TLC

\* ------------------------------------------------------------------------
\* Natural numbers of arbitrary size (limbs, least significant first).
\* ------------------------------------------------------------------------

\* One limb holds LimbBits bits.
LimbBits == 14

\* Significand width of a double.
Precision == 53

\* 2^n for n in 0..LimbBits.
Pow2(n) ==
    <<1, 2, 4, 8, 16, 32, 64, 128, 256, 512, 1024, 2048, 4096, 8192, 16384>>[n + 1]

Base == Pow2(LimbBits)

Max2(a, b) == IF a >= b THEN a ELSE b

Min2(a, b) == IF a <= b THEN a ELSE b

Limb(a, i) == IF i >= 1 /\ i <= Len(a) THEN a[i] ELSE 0

RECURSIVE BTrim(_)
BTrim(a) ==
    IF a = <<>> THEN a
    ELSE IF a[Len(a)] = 0 THEN BTrim(SubSeq(a, 1, Len(a) - 1))
    ELSE a

RECURSIVE BCarry(_, _)
BCarry(a, c) ==
    IF a = <<>>
    THEN IF c = 0 THEN <<>> ELSE <<c % Base>> \o BCarry(<<>>, c \div Base)
    ELSE LET v == Head(a) + c
         IN  <<v % Base>> \o BCarry(Tail(a), v \div Base)

BFromInt(n) == BCarry(<<>>, n)

RECURSIVE BToInt(_)
BToInt(a) == IF a = <<>> THEN 0 ELSE Head(a) + Base * BToInt(Tail(a))

BAdd(a, b) ==
    BTrim(BCarry([i \in 1..Max2(Len(a), Len(b)) |-> Limb(a, i) + Limb(b, i)], 0))

RECURSIVE BBorrow(_, _, _)
BBorrow(a, b, c) ==
    IF a = <<>> THEN <<>>
    ELSE LET v == Head(a) - (IF b = <<>> THEN 0 ELSE Head(b)) - c
             t == IF b = <<>> THEN <<>> ELSE Tail(b)
         IN  IF v < 0 THEN <<v + Base>> \o BBorrow(Tail(a), t, 1)
             ELSE <<v>> \o BBorrow(Tail(a), t, 0)

\* a - b for a >= b.
BSub(a, b) == BTrim(BBorrow(a, b, 0))

RECURSIVE BCmpFrom(_, _, _)
BCmpFrom(a, b, i) ==
    IF i = 0 THEN 0
    ELSE IF a[i] > b[i] THEN 1
    ELSE IF a[i] < b[i] THEN -1
    ELSE BCmpFrom(a, b, i - 1)

\* -1, 0, 1 as a < b, a = b, a > b.
BCmp(a, b) ==
    IF Len(a) > Len(b) THEN 1
    ELSE IF Len(a) < Len(b) THEN -1
    ELSE BCmpFrom(a, b, Len(a))

RECURSIVE BConv(_, _, _, _)
BConv(a, b, k, i) ==
    IF i > Len(a) THEN 0
    ELSE Limb(a, i) * Limb(b, k - i + 1) + BConv(a, b, k, i + 1)

\* Schoolbook product; the shorter operand has at most four limbs.
BMul(a, b) ==
    IF a = <<>> \/ b = <<>> THEN <<>>
    ELSE LET s == IF Len(a) <= Len(b) THEN a ELSE b
             l == IF Len(a) <= Len(b) THEN b ELSE a
         IN  BTrim(BCarry([k \in 1..(Len(a) + Len(b) - 1) |-> BConv(s, l, k, 1)], 0))

\* a * 2^n.
BShl(a, n) ==
    IF a = <<>> THEN <<>>
    ELSE LET w == n \div LimbBits
             r == n % LimbBits
         IN  [i \in 1..w |-> 0] \o BCarry([i \in 1..Len(a) |-> a[i] * Pow2(r)], 0)

\* floor(a / 2^n).
BShr(a, n) ==
    LET w == n \div LimbBits
        r == n % LimbBits
    IN  IF w >= Len(a) THEN <<>>
        ELSE BTrim([i \in 1..(Len(a) - w) |->
                     (a[i + w] \div Pow2(r))
                     + (Limb(a, i + w + 1) % Pow2(r)) * Pow2(LimbBits - r)])

RECURSIVE IntBitLen(_)
IntBitLen(n) == IF n = 0 THEN 0 ELSE 1 + IntBitLen(n \div 2)

BBitLen(a) ==
    IF a = <<>> THEN 0 ELSE (Len(a) - 1) * LimbBits + IntBitLen(a[Len(a)])

BIsOdd(a) == a # <<>> /\ a[1] % 2 = 1

RECURSIVE BDivStep(_, _, _, _)
BDivStep(a, d, i, r) ==
    IF i = 0 THEN [q |-> <<>>, r |-> r]
    ELSE LET v    == r * Base + a[i]
             rest == BDivStep(a, d, i - 1, v % d)
         IN  [q |-> rest.q \o <<v \div d>>, r |-> rest.r]

\* Quotient and remainder of a by the small integer d (0 < d < Base).
BDivSmall(a, d) ==
    LET x == BDivStep(a, d, Len(a), 0)
    IN  [q |-> BTrim(x.q), r |-> x.r]

\* ------------------------------------------------------------------------
\* Doubles: value (-1)^sign * m * 2^e with m = <<>> (zero) or a significand
\* of exactly Precision bits.
\* ------------------------------------------------------------------------

FZero == [sign |-> 0, m |-> <<>>, e |-> 0]

\* Bit k (from 0) of a.
BBit(a, k) == (Limb(a, (k \div LimbBits) + 1) \div Pow2(k % LimbBits)) % 2

\* Whether a has a bit set below bit k.
BLowBits(a, k) ==
    \/ \E i \in 1..(k \div LimbBits) : Limb(a, i) # 0
    \/ Limb(a, (k \div LimbBits) + 1) % Pow2(k % LimbBits) # 0

\* The double nearest to (-1)^sign * (M + f) * 2^E, ties to even, where the
\* fraction f is 0 when sticky is FALSE and some 0 < f < 1 when it is TRUE
\* (M then has more than Precision bits).
FRound(sign, M, E, sticky) ==
    LET L == BBitLen(M)
    IN  IF L = 0 THEN FZero
        ELSE IF L <= Precision
        THEN [sign |-> sign, m |-> BShl(M, Precision - L), e |-> E - (Precision - L)]
        ELSE LET sh   == L - Precision
                 q    == BShr(M, sh)
                 half == BBit(M, sh - 1) = 1
                 rest == sticky \/ BLowBits(M, sh - 1)
                 up   == half /\ (rest \/ BIsOdd(q))
                 q1   == IF up THEN BAdd(q, <<1>>) ELSE q
             IN  IF BBitLen(q1) > Precision
                 THEN [sign |-> sign, m |-> BShr(q1, 1), e |-> E + sh + 1]
                 ELSE [sign |-> sign, m |-> q1, e |-> E + sh]

\* Limbs of quotient computed before rounding: more than Precision + 2 bits
\* for every divisor below Base.
DivLimbs == 5

Abs(n) == IF n < 0 THEN 0 - n ELSE n

\* a / b for Numbers holding the integers a and b # 0 (both exact as
\* doubles): the exact quotient, rounded once; a non-zero remainder is the
\* sticky fraction.
FDivInt(a, b) ==
    IF a = 0 THEN FZero
    ELSE LET x == BDivSmall([i \in 1..DivLimbs |-> 0] \o BFromInt(Abs(a)), Abs(b))
         IN  FRound(IF (a < 0) = (b < 0) THEN 0 ELSE 1,
                    x.q, 0 - DivLimbs * LimbBits, x.r # 0)

FFromInt(n) == FRound(IF n < 0 THEN 1 ELSE 0, BFromInt(Abs(n)), 0, FALSE)

FMul(x, y) ==
    FRound((x.sign + y.sign) % 2, BMul(x.m, y.m), x.e + y.e, FALSE)

\* x - y: both operands aligned to the smaller exponent, subtracted exactly,
\* rounded once.
FSub(x, y) ==
    LET e  == IF x.m = <<>> THEN y.e ELSE IF y.m = <<>> THEN x.e ELSE Min2(x.e, y.e)
        X  == BShl(x.m, x.e - e)
        Y  == BShl(y.m, y.e - e)
        ys == 1 - y.sign
    IN  IF x.sign = ys THEN FRound(x.sign, BAdd(X, Y), e, FALSE)
        ELSE IF BCmp(X, Y) >= 0 THEN FRound(x.sign, BSub(X, Y), e, FALSE)
        ELSE FRound(ys, BSub(Y, X), e, FALSE)

\* -1, 0, 1 as x < 0, x = 0, x > 0.
FSign(x) == IF x.m = <<>> THEN 0 ELSE IF x.sign = 1 THEN -1 ELSE 1

\* Math.max(0, x).
MathMax0(x) == IF x.sign = 1 THEN FZero ELSE x

\* x.toFixed(1), as the number of tenths printed: the integer n for which
\* n/10 - |x| is closest to zero, the larger n when two are equally close,
\* with the sign of x.  For e < 0, |x| * 10 = 10 m / 2^(-e): n is the integer
\* part plus the first fraction bit.
toFixed1(x) ==
    IF x.m = <<>> THEN 0
    ELSE LET t == BMul(x.m, BFromInt(10))
             n == IF x.e < 0
                  THEN BToInt(BShr(t, 0 - x.e)) + BBit(t, 0 - x.e - 1)
                  ELSE BToInt(BShl(t, x.e))
         IN  IF x.sign = 1 THEN 0 - n ELSE n

\* parseFloat of a decimal string with one fractional digit, n tenths: the
\* double nearest to n/10.
parseFloat1(n) == FDivInt(n, 10)

\* ------------------------------------------------------------------------
\* Data model.  A Criterion is [id, name, weight]; an Option is
\* [id, name, scores, isHighRisk] with scores a function from some criterion
\* ids to integers; a Result is an Option with finalScore, the double that
\* parseFloat read back from the toFixed(1) string.
\* ------------------------------------------------------------------------

VARIABLES criteria, options, riskFactor, results, winner, aiSummary,
          decisionTitle, pdf, localStorage, reloadPending

vars == <<criteria, options, riskFactor, results, winner, aiSummary,
          decisionTitle, pdf, localStorage, reloadPending>>

null == [null |-> TRUE]

\* option.scores[criterion.id] || 0
scoreOf(option, id) ==
    IF id \in DOMAIN option.scores THEN option.scores[id] ELSE 0

\* The criteria.forEach accumulation of score * weight.  The operands are
\* small integers, so the double additions and products are exact.
RECURSIVE totalWeightedScore(_, _)
totalWeightedScore(option, crit) ==
    IF crit = <<>> THEN 0
    ELSE scoreOf(option, Head(crit).id) * Head(crit).weight
         + totalWeightedScore(option, Tail(crit))

RECURSIVE totalWeight(_)
totalWeight(crit) ==
    IF crit = <<>> THEN 0 ELSE Head(crit).weight + totalWeight(Tail(crit))

\* The normalisation without the factor 10 of the score scale.
baseScoreUnscaled(tws, tw) == FMul(FDivInt(tws, tw), FFromInt(100))

\* (totalWeightedScore / (totalWeight * 10)) * 100
baseScore(tws, tw) == FMul(FDivInt(tws, tw * 10), FFromInt(100))

\* The conditional with its branches exchanged.
penaltyInverted(option, base, rf) ==
    IF option.isHighRisk THEN FZero ELSE FMul(base, FDivInt(rf, 100))

\* option.isHighRisk ? baseScore * (riskFactor / 100) : 0
penalty(option, base, rf) ==
    IF option.isHighRisk THEN FMul(base, FDivInt(rf, 100)) ELSE FZero

\* The body of the options.map callback: the option with its finalScore.
scoreOption(option, crit, rf) ==
    LET tws == totalWeightedScore(option, crit)
        tw  == totalWeight(crit)
    IN  IF tw = 0
        THEN [id |-> option.id, name |-> option.name, scores |-> option.scores,
              isHighRisk |-> option.isHighRisk, finalScore |-> FZero]
        ELSE \* baseScore, penalty and the clamped difference, each computed
             \* once and then used as a value.
             CHOOSE scored \in
               UNION { UNION { { [id |-> option.id, name |-> option.name,
                                  scores |-> option.scores,
                                  isHighRisk |-> option.isHighRisk,
                                  finalScore |-> parseFloat1(toFixed1(fin))] :
                                 fin \in {MathMax0(FSub(base, pen))} } :
                               pen \in {penalty(option, base, rf)} } :
                       base \in {baseScore(tws, tw)} } : TRUE

\* A sort that does not keep equal elements in order (it reverses them).
sortsBeforeUnstable(c, j, i) == c < 0 \/ (c = 0 /\ j > i)

\* Whether the element at index j is placed before the one at index i, given
\* the comparator's result c for (arr[j], arr[i]): equal elements keep their
\* order.
sortsBefore(c, j, i) == c < 0 \/ (c = 0 /\ j < i)

\* Array.prototype.sort: a stable sort by a consistent comparator, whose
\* result for (arr[j], arr[i]) is order[j][i].  Element i goes after every
\* element that compares before it and after every earlier element that
\* compares equal to it.
RECURSIVE sortRank(_, _, _, _)
sortRank(arr, order, i, j) ==
    IF j > Len(arr) THEN 1
    ELSE (IF j # i /\ sortsBefore(order[j][i], j, i) THEN 1 ELSE 0)
         + sortRank(arr, order, i, j + 1)

RECURSIVE sortRanks(_, _, _)
sortRanks(arr, order, i) ==
    IF i > Len(arr) THEN <<>>
    ELSE <<sortRank(arr, order, i, 1)>> \o sortRanks(arr, order, i + 1)

RECURSIVE sortPlace(_, _, _)
sortPlace(arr, rank, k) ==
    IF k > Len(arr) THEN <<>>
    ELSE <<arr[CHOOSE i \in 1..Len(arr) : rank[i] = k]>> \o sortPlace(arr, rank, k + 1)

ArraySort(arr, order) ==
    CHOOSE sorted \in UNION { { sortPlace(a, ranks, 1) :
                                  ranks \in {sortRanks(a, o, 1)} } :
                              a \in {arr}, o \in {order} } : TRUE

\* The comparator with its operands exchanged: an ascending sort.
byFinalScoreAscending(a, b) == FSign(FSub(a.finalScore, b.finalScore))

\* (a, b) => b.finalScore - a.finalScore, by its sign.
byFinalScore(a, b) ==
    FSign(FSub(b.finalScore, a.finalScore))

\* options.map(option => ...)
RECURSIVE mapScore(_, _, _)
mapScore(opts, crit, rf) ==
    IF opts = <<>> THEN <<>>
    ELSE <<scoreOption(Head(opts), crit, rf)>> \o mapScore(Tail(opts), crit, rf)

\* The comparator's results over the scored options.
finalScoreOrder(arr) ==
    [j \in 1..Len(arr) |-> [i \in 1..Len(arr) |-> byFinalScore(arr[j], arr[i])]]

\* options.map(...).sort(...): the mapped list is computed once, then
\* sorted.
calculateScores(opts, crit, rf) ==
    CHOOSE sorted \in { ArraySort(scored, finalScoreOrder(scored)) :
                          scored \in {mapScore(opts, crit, rf)} } : TRUE

\* ------------------------------------------------------------------------
\* Narrative generator.  The returned string is held by its parts: which
\* template it is and the values substituted into it.  A margin is the
\* number of tenths that toFixed(1) printed.
\* ------------------------------------------------------------------------

InsufficientData ==
    [text |-> "Insufficient data", name |-> "", margin |-> 0,
     primaryStrength |-> "", risk |-> [clause |-> "", margin |-> 0, name |-> ""]]

\* criteria.map(c => ({name, weightedScore: score * c.weight}))
RECURSIVE mapStrengths(_, _)
mapStrengths(w, crit) ==
    IF crit = <<>> THEN <<>>
    ELSE <<[name |-> Head(crit).name,
            weightedScore |-> scoreOf(w, Head(crit).id) * Head(crit).weight]>>
         \o mapStrengths(w, Tail(crit))

\* The comparator with its operands exchanged: smallest first.
byWeightedScoreAscending(a, b) == a.weightedScore - b.weightedScore

\* (a, b) => b.weightedScore - a.weightedScore (integers, exact).
byWeightedScore(a, b) == b.weightedScore - a.weightedScore

\* strengths[0]?.name || "key metrics"
primaryStrengthOf(strengths) ==
    IF strengths = <<>> \/ strengths[1].name = "" THEN "key metrics"
    ELSE strengths[1].name

\* The difference taken the other way round.
marginOfReversed(w, runnerUp) ==
    toFixed1(FSub(runnerUp.finalScore, w.finalScore))

\* (winner.finalScore - runnerUp.finalScore).toFixed(1)
marginOf(w, runnerUp) ==
    toFixed1(FSub(w.finalScore, runnerUp.finalScore))

\* The branches in another order: the runner-up's flag is looked at first.
riskClauseRunnerUpFirst(w, runnerUp, margin) ==
    IF runnerUp.isHighRisk /\ ~w.isHighRisk
    THEN [clause |-> "stable", margin |-> 0, name |-> runnerUp.name]
    ELSE IF w.isHighRisk /\ ~runnerUp.isHighRisk
    THEN [clause |-> "WARNING", margin |-> margin, name |-> ""]
    ELSE [clause |-> "balanced", margin |-> 0, name |-> ""]

\* The if / else if / else that appends the risk clause.
riskClause(w, runnerUp, margin) ==
    IF w.isHighRisk
    THEN [clause |-> "WARNING", margin |-> margin, name |-> ""]
    ELSE IF runnerUp.isHighRisk /\ ~w.isHighRisk
    THEN [clause |-> "stable", margin |-> 0, name |-> runnerUp.name]
    ELSE [clause |-> "balanced", margin |-> 0, name |-> ""]

\* The guard without its test of the winner's score.
insufficientNoZero(w, res) ==
    IF w = null THEN TRUE ELSE Len(res) < 2

\* !winner || winner.finalScore === 0 || results.length < 2
insufficient(w, res) ==
    IF w = null THEN TRUE
    ELSE FSign(w.finalScore) = 0 \/ Len(res) < 2

\* The comparator's results over the strengths.
weightedScoreOrder(arr) ==
    [j \in 1..Len(arr) |-> [i \in 1..Len(arr) |-> byWeightedScore(arr[j], arr[i])]]

generateAIExplanation(w, crit, res) ==
    IF insufficient(w, res) THEN InsufficientData
    ELSE LET runnerUp  == res[2]
             margin    == marginOf(w, runnerUp)
             mapped    == mapStrengths(w, crit)
             strengths == ArraySort(mapped, weightedScoreOrder(mapped))
         IN  [text |-> "Strategy Analysis", name |-> w.name, margin |-> margin,
              primaryStrength |-> primaryStrengthOf(strengths),
              risk |-> riskClause(w, runnerUp, margin)]

\* App: results[0]?.finalScore > 0 ? results[0] : null
appWinner(res) ==
    IF res # <<>> /\ FSign(res[1].finalScore) > 0 THEN res[1] ELSE null

\* ------------------------------------------------------------------------
\* Inputs.  Criteria get their ids by position; options get the ids
\* 101, 102, ... and the names of OptionNames.
\* ------------------------------------------------------------------------

\* Most options in a list.
MaxOptions == 2

\* Weights of the criteria lists scored: none; the default single criterion
\* of weight 8; a zero weight; two criteria with total weight 2 and 8, where
\* products of small scores land on decimal ties (x.x5).
WeightLists == {<<>>, <<8>>, <<0>>, <<1, 1>>, <<1, 7>>}

CriterionNames == <<"Impact", "New Metric">>

criteriaOf(weights, names) ==
    [j \in 1..Len(weights) |-> [id |-> j, name |-> names[j], weight |-> weights[j]]]

\* Score rows and risk flags an option is drawn from: the best score, flagged
\* high risk; half the best score; two scores whose weighted sum is 23; a
\* single low score, flagged high risk; no score entered yet.
OptionProfiles ==
    { [scores |-> (1 :> 10), isHighRisk |-> TRUE],
      [scores |-> (1 :> 5), isHighRisk |-> FALSE],
      [scores |-> (1 :> 2) @@ (2 :> 3), isHighRisk |-> FALSE],
      [scores |-> (1 :> 1), isHighRisk |-> TRUE],
      [scores |-> <<>>, isHighRisk |-> FALSE] }

OptionNames == <<"Project A", "Project B", "Project C">>

optionName(i) == IF i <= Len(OptionNames) THEN OptionNames[i] ELSE "New Option"

optionsOf(profiles) ==
    [i \in 1..Len(profiles) |->
       [id |-> 100 + i, name |-> optionName(i),
        scores |-> profiles[i].scores, isHighRisk |-> profiles[i].isHighRisk]]

OptionLists ==
    UNION { { optionsOf(p) : p \in [1..n -> OptionProfiles] } : n \in 0..MaxOptions }

\* Positions of the risk slider visited: both ends, the default, and two
\* values in between.
RiskFactors == {0, 3, 15, 20, 30}

DefaultRisk == 15

\* A string title, as the sequence of its UTF-16 code units.
stringTitle(units) == [isString |-> TRUE, units |-> units]

\* The title the App passes to exportToPDF: "Clarity_Report".
AppTitle == stringTitle(<<67, 108, 97, 114, 105, 116, 121, 95, 82, 101, 112, 111, 114, 116>>)

\* No export under way.
Idle == [pc |-> "idle", doc |-> <<>>, file |-> <<>>, saveCalls |-> 0,
         fault |-> "", logged |-> FALSE, alerted |-> FALSE, thrown |-> FALSE]

\* localStorage after localStorage.clear(): none of the three keys is set.
cleared == [set |-> FALSE, criteria |-> <<>>, options |-> <<>>, risk |-> 0]

\* localStorage after the three setItem calls of the persistence effect.
\* The values are arrays and objects of integers, strings and booleans,
\* which JSON.parse reads back from their JSON.stringify text unchanged.
setItems(crit, opts, rf) ==
    [set |-> TRUE, criteria |-> crit, options |-> opts, risk |-> rf]

\* A render after a state setter: results, winner and aiSummary are derived
\* from the new state, and the persistence effect saves the new state.
Rendered ==
    /\ results' = calculateScores(options', criteria', riskFactor')
    /\ winner' = appWinner(results')
    /\ aiSummary' = generateAIExplanation(winner', criteria', results')
    /\ localStorage' = setItems(criteria', options', riskFactor')

Init ==
    /\ criteria \in { criteriaOf(w, CriterionNames) : w \in WeightLists }
    /\ options \in OptionLists
    /\ riskFactor = DefaultRisk
    /\ results = calculateScores(options, criteria, riskFactor)
    /\ winner = appWinner(results)
    /\ aiSummary = generateAIExplanation(winner, criteria, results)
    /\ decisionTitle = AppTitle
    /\ pdf = Idle
    /\ localStorage = setItems(criteria, options, riskFactor)
    /\ reloadPending = FALSE

\* The risk slider's onChange: setRiskFactor(parseInt(e.target.value)).
SetRiskFactor ==
    \E r \in RiskFactors :
       /\ r # riskFactor
       /\ riskFactor' = r
       /\ UNCHANGED <<criteria, options, decisionTitle, pdf, reloadPending>>
       /\ Rendered

\* The risk slider is part of the main grid, which the App draws only for
\* a non-empty criteria list.
Next == criteria # <<>> /\ SetRiskFactor

Spec == Init /\ [][Next]_vars

\* ------------------------------------------------------------------------
\* The narrative generator called on its own: generateAIExplanation is
\* exported and takes the winner as an argument, so every Result of the
\* list and null are passed as winner.
\* ------------------------------------------------------------------------

ExplainWeightLists == {<<8>>, <<1, 1>>, <<1, 7>>}

\* Names as the user may have edited them; a name field can be left empty.
ExplainNameLists ==
    {<<"Impact", "New Metric">>, <<"", "New Metric">>, <<"Impact", "">>}

\* The profiles above and one whose two scores are equal.
ExplainProfiles ==
    OptionProfiles \cup {[scores |-> (1 :> 3) @@ (2 :> 3), isHighRisk |-> FALSE]}

ExplainOptionLists ==
    UNION { { optionsOf(p) : p \in [1..n -> ExplainProfiles] } : n \in 0..MaxOptions }

InitExplain ==
    /\ criteria \in { criteriaOf(w, n) : w \in ExplainWeightLists, n \in ExplainNameLists }
    /\ options \in ExplainOptionLists
    /\ riskFactor = DefaultRisk
    /\ results = calculateScores(options, criteria, riskFactor)
    /\ winner = appWinner(results)
    /\ aiSummary = generateAIExplanation(winner, criteria, results)
    /\ decisionTitle = AppTitle
    /\ pdf = Idle
    /\ localStorage = setItems(criteria, options, riskFactor)
    /\ reloadPending = FALSE

CallExplain ==
    \E w \in {null} \cup {results[i] : i \in 1..Len(results)} :
       /\ winner' = w
       /\ aiSummary' = generateAIExplanation(w, criteria, results)
       /\ UNCHANGED <<criteria, options, riskFactor, results, decisionTitle, pdf,
                   localStorage, reloadPending>>

NextExplain == CallExplain

SpecExplain == InitExplain /\ [][NextExplain]_vars

\* ------------------------------------------------------------------------
\* Report exporter.  exportToPDF runs its statements in order inside one
\* try block; any of them may throw (the PDF library is outside this code),
\* and decisionTitle.replace throws when the title is not a string.  pdf
\* records how far the call got: the sections drawn into the document, the
\* file name passed to save, how often save was called, the step that threw,
\* what the catch block did, and whether an exception left the function.
\* ------------------------------------------------------------------------

\* The statements of the try block, in order: the document is created, the
\* header, the recommendation card, the wrapped narrative and the table are
\* drawn, the file name is built, the document is saved.
ExportSteps == <<"new", "header", "card", "analysis", "table", "name", "save">>

\* A try block that ends before the save statement.
tryBlockWithoutSave == {"new", "header", "card", "analysis", "table", "name"}

\* The statements the try block encloses.
tryBlock == {"new", "header", "card", "analysis", "table", "name", "save"}

stepAfter(step) ==
    LET k == CHOOSE i \in 1..Len(ExportSteps) : ExportSteps[i] = step
    IN  IF k = Len(ExportSteps) THEN "done" ELSE ExportSteps[k + 1]

\* The code units the class \s of a regular expression matches: U+0009 to
\* U+000D, U+0020, U+00A0, U+1680, U+2000 to U+200A, U+2028, U+2029, U+202F,
\* U+205F, U+3000 and U+FEFF.
Whitespace ==
    (9..13) \cup {32, 160, 5760} \cup (8192..8202)
       \cup {8232, 8233, 8239, 8287, 12288, 65279}

\* The code unit of "_".
Underscore == 95

\* decisionTitle.replace(/\s+/g, '_'): every maximal run of whitespace
\* becomes one underscore.
RECURSIVE replaceWhitespace(_, _)
replaceWhitespace(title, inRun) ==
    IF title = <<>> THEN <<>>
    ELSE IF Head(title) \in Whitespace
    THEN (IF inRun THEN <<>> ELSE <<Underscore>>) \o replaceWhitespace(Tail(title), TRUE)
    ELSE <<Head(title)>> \o replaceWhitespace(Tail(title), FALSE)

\* The code units of "_Clarity_Report.pdf".
fileSuffix ==
    <<95, 67, 108, 97, 114, 105, 116, 121, 95, 82, 101, 112, 111, 114, 116,
      46, 112, 100, 102>>

\* `${...}_Clarity_Report.pdf`
fileName(title) == replaceWhitespace(title.units, FALSE) \o fileSuffix

\* A title that is not a string (undefined, null, a number): it has no
\* replace method.
notAString == [isString |-> FALSE, units |-> <<>>]

\* Titles passed to the exporter:
\*   the App's;
\*   "Q3  Plan\tB", with a run of two spaces and a tab;
\*   "A\r\nB\u00A0\u3000C\uFEFF", with runs of other whitespace, one at the end;
\*   "A", every code unit of \s in one run, "B";
\*   "\u2028X\u200BY\u180E", where U+200B and U+180E are not whitespace;
\*   a title that is not a string.
Titles ==
    { AppTitle,
      stringTitle(<<81, 51, 32, 32, 80, 108, 97, 110, 9, 66>>),
      stringTitle(<<65, 13, 10, 66, 160, 12288, 67, 65279>>),
      stringTitle(<<65, 9, 10, 11, 12, 13, 32, 160, 5760, 8192, 8193, 8194,
                    8195, 8196, 8197, 8198, 8199, 8200, 8201, 8202, 8232,
                    8233, 8239, 8287, 12288, 65279, 66>>),
      stringTitle(<<8232, 88, 8203, 89, 6158>>),
      notAString }

\* exportToPDF(decisionTitle, criteria, results, aiSummary) is called; the
\* previous call, if any, has returned.
ExportStart ==
    /\ pdf.pc \in {"idle", "done"}
    /\ pdf' = [Idle EXCEPT !.pc = ExportSteps[1]]
    /\ UNCHANGED <<criteria, options, riskFactor, results, winner, aiSummary,
                   decisionTitle, localStorage, reloadPending>>

\* Where control goes when the statement `step` throws.
throwTarget(step) == IF step \in tryBlock THEN "catch" ELSE "thrown"

\* One statement group of the try block runs to its end.
stepDone(step) ==
    IF step = "name"
    THEN [pdf EXCEPT !.pc = stepAfter(step), !.file = fileName(decisionTitle)]
    ELSE IF step = "save"
    THEN [pdf EXCEPT !.pc = stepAfter(step), !.saveCalls = @ + 1]
    ELSE [pdf EXCEPT !.pc = stepAfter(step), !.doc = Append(@, step)]

\* One statement group of the try block throws.
stepThrows(step) ==
    LET calls == IF step = "save" THEN pdf.saveCalls + 1 ELSE pdf.saveCalls
    IN  IF throwTarget(step) = "catch"
        THEN [pdf EXCEPT !.pc = "catch", !.fault = step, !.saveCalls = calls]
        ELSE [pdf EXCEPT !.pc = "done", !.fault = step, !.saveCalls = calls,
                         !.thrown = TRUE]

ExportStep ==
    /\ pdf.pc \in { ExportSteps[i] : i \in 1..Len(ExportSteps) }
    /\ \E fault \in BOOLEAN :
          pdf' = IF fault \/ (pdf.pc = "name" /\ ~decisionTitle.isString)
                 THEN stepThrows(pdf.pc)
                 ELSE stepDone(pdf.pc)
    /\ UNCHANGED <<criteria, options, riskFactor, results, winner, aiSummary,
                   decisionTitle, localStorage, reloadPending>>

\* catch (err) { console.error(...); alert(...); } in a browser, where both
\* exist and return.
ExportCatch ==
    /\ pdf.pc = "catch"
    /\ pdf' = [pdf EXCEPT !.pc = "done", !.logged = TRUE, !.alerted = TRUE]
    /\ UNCHANGED <<criteria, options, riskFactor, results, winner, aiSummary,
                   decisionTitle, localStorage, reloadPending>>

InitExport ==
    /\ criteria \in { criteriaOf(w, CriterionNames) : w \in {<<>>, <<8>>} }
    /\ options \in OptionLists
    /\ riskFactor = DefaultRisk
    /\ results = calculateScores(options, criteria, riskFactor)
    /\ winner = appWinner(results)
    /\ aiSummary = generateAIExplanation(winner, criteria, results)
    /\ decisionTitle \in Titles
    /\ pdf = Idle
    /\ localStorage = setItems(criteria, options, riskFactor)
    /\ reloadPending = FALSE

NextExport == ExportStart \/ ExportStep \/ ExportCatch

SpecExport == InitExport /\ [][NextExport]_vars

\* ------------------------------------------------------------------------
\* The App's editing handlers, from its default state.  Each handler sets
\* criteria or options and the App renders again, which computes results,
\* winner and aiSummary anew.
\* ------------------------------------------------------------------------

\* Most criteria and most options the add buttons are pressed up to.
MaxCriteria == 3
MaxAppOptions == 2

\* useState's defaults when nothing is saved.
DefaultCriteria == <<[id |-> 1, name |-> "Impact", weight |-> 8]>>

DefaultOptions ==
    <<[id |-> 101, name |-> "Project A", scores |-> (1 :> 7),
       isHighRisk |-> FALSE]>>

\* Values Date.now() returns at a press of an add button, in milliseconds
\* counted from a point long after 101.
Times == {1001, 1002}

\* The latest reading of the clock still held as an id, 0 when there is none.
latestTime ==
    LET held == { criteria[i].id : i \in 1..Len(criteria) }
                \cup { options[i].id : i \in 1..Len(options) }
    IN  IF held \cap Times = {} THEN 0
        ELSE CHOOSE t \in held \cap Times : \A u \in held \cap Times : u <= t

\* Date.now(): the clock does not run backwards, and it may show the same
\* millisecond at two presses.
DateNow == { t \in Times : t >= latestTime }

Digits == <<"0", "1", "2", "3", "4", "5", "6", "7", "8", "9">>

isDigit(ch) == \E d \in 1..Len(Digits) : Digits[d] = ch

digitOf(ch) == (CHOOSE d \in 1..Len(Digits) : Digits[d] = ch) - 1

\* The digits at the front of text, read onto acc; seen tells whether any
\* digit was read.
RECURSIVE parseDigits(_, _, _)
parseDigits(text, acc, seen) ==
    IF text # <<>> /\ isDigit(Head(text))
    THEN parseDigits(Tail(text), acc * 10 + digitOf(Head(text)), TRUE)
    ELSE [value |-> acc, seen |-> seen]

\* parseInt(text) || 0 for a text given by its characters: an optional
\* sign, then the leading digits; NaN, when there is no digit, gives 0.
parseIntOr0(text) ==
    LET negative == text # <<>> /\ Head(text) = "-"
        signed   == text # <<>> /\ Head(text) \in {"-", "+"}
        read     == parseDigits(IF signed THEN Tail(text) ELSE text, 0, FALSE)
    IN  IF ~read.seen THEN 0
        ELSE IF negative THEN 0 - read.value ELSE read.value

\* Texts typed into a score field: a score, and nothing.
ScoreInputs == {<<"9">>, <<>>}

\* The position a weight slider is moved to: its upper end.
WeightInputs == {<<"1", "0">>}

\* array.map(f) with f given by its results.
mapSeq(arr, image) == [i \in 1..Len(arr) |-> image[i]]

\* { ...scores, [critId]: val }
withKey(scores, critId, val) ==
    [k \in DOMAIN scores \cup {critId} |-> IF k = critId THEN val ELSE scores[k]]

\* newScores = { ...scores }; delete newScores[id]
withoutKey(scores, id) == [k \in DOMAIN scores \ {id} |-> scores[k]]

\* The state the App starts in with nothing saved.
InitApp ==
    /\ criteria = DefaultCriteria
    /\ options = DefaultOptions
    /\ riskFactor = DefaultRisk
    /\ results = calculateScores(options, criteria, riskFactor)
    /\ winner = appWinner(results)
    /\ aiSummary = generateAIExplanation(winner, criteria, results)
    /\ decisionTitle = AppTitle
    /\ pdf = Idle
    /\ localStorage = setItems(criteria, options, riskFactor)
    /\ reloadPending = FALSE

\* setCriteria([...criteria, { id: Date.now(), name: 'New Metric', weight: 5 }])
addCriterion ==
    /\ Len(criteria) < MaxCriteria
    /\ \E now \in DateNow :
          criteria' = Append(criteria, [id |-> now, name |-> "New Metric", weight |-> 5])
    /\ UNCHANGED <<options, riskFactor, decisionTitle, pdf, reloadPending>>
    /\ Rendered

\* setOptions([...options, { id: Date.now(), name: 'New Option', scores: {},
\* isHighRisk: false }])
addOption ==
    /\ Len(options) < MaxAppOptions
    /\ \E now \in DateNow :
          options' = Append(options, [id |-> now, name |-> "New Option",
                                      scores |-> <<>>, isHighRisk |-> FALSE])
    /\ UNCHANGED <<criteria, riskFactor, decisionTitle, pdf, reloadPending>>
    /\ Rendered

\* A score field's onChange, for the option and the criterion of its cell.
updateScore ==
    /\ \E o \in 1..Len(options), c \in 1..Len(criteria), val \in ScoreInputs :
          LET optId  == options[o].id
              critId == criteria[c].id
          IN  options' =
                 mapSeq(options,
                        [i \in 1..Len(options) |->
                           IF options[i].id = optId
                           THEN [options[i] EXCEPT
                                   !.scores = withKey(@, critId, parseIntOr0(val))]
                           ELSE options[i]])
    /\ UNCHANGED <<criteria, riskFactor, decisionTitle, pdf, reloadPending>>
    /\ Rendered

\* A weight slider's onChange, for the criterion of its row:
\* weight: parseInt(e.target.value).  A slider's value is always a numeral,
\* so the parse never gives NaN.
setWeight ==
    /\ \E c \in 1..Len(criteria), val \in WeightInputs :
          criteria' =
             mapSeq(criteria,
                    [i \in 1..Len(criteria) |->
                       IF criteria[i].id = criteria[c].id
                       THEN [criteria[i] EXCEPT !.weight = parseIntOr0(val)]
                       ELSE criteria[i]])
    /\ UNCHANGED <<options, riskFactor, decisionTitle, pdf, reloadPending>>
    /\ Rendered

\* The text of a criterion's name field after an edit: the empty text left
\* when the name is erased.
CriterionNameInputs == {""}

\* The text typed into an option's name field.
OptionNameInputs == {"Plan B"}

\* A criterion's name field onChange, for the criterion of its row.
setCriterionName ==
    /\ \E c \in 1..Len(criteria), value \in CriterionNameInputs :
          criteria' =
             mapSeq(criteria,
                    [i \in 1..Len(criteria) |->
                       IF criteria[i].id = criteria[c].id
                       THEN [criteria[i] EXCEPT !.name = value]
                       ELSE criteria[i]])
    /\ UNCHANGED <<options, riskFactor, decisionTitle, pdf, reloadPending>>
    /\ Rendered

\* An option's name field onChange, for the option of its row.
setOptionName ==
    /\ \E o \in 1..Len(options), value \in OptionNameInputs :
          options' =
             mapSeq(options,
                    [i \in 1..Len(options) |->
                       IF options[i].id = options[o].id
                       THEN [options[i] EXCEPT !.name = value]
                       ELSE options[i]])
    /\ UNCHANGED <<criteria, riskFactor, decisionTitle, pdf, reloadPending>>
    /\ Rendered

\* An option's high-risk checkbox onChange: isHighRisk: e.target.checked.
setHighRisk ==
    /\ \E o \in 1..Len(options), checked \in BOOLEAN :
          options' =
             mapSeq(options,
                    [i \in 1..Len(options) |->
                       IF options[i].id = options[o].id
                       THEN [options[i] EXCEPT !.isHighRisk = checked]
                       ELSE options[i]])
    /\ UNCHANGED <<criteria, riskFactor, decisionTitle, pdf, reloadPending>>
    /\ Rendered

\* resetData: when the confirm dialog is accepted, localStorage is cleared
\* and a reload of the page is requested; the handler sets no state, and
\* the page goes on taking events until the load happens.  When the dialog
\* is declined nothing changes.
resetData ==
    \E confirmed \in BOOLEAN :
       IF confirmed
       THEN /\ localStorage' = cleared
            /\ reloadPending' = TRUE
            /\ UNCHANGED <<criteria, options, riskFactor, results, winner,
                           aiSummary, decisionTitle, pdf>>
       ELSE UNCHANGED vars

\* The page load that window.location.reload() asked for: the App is
\* constructed again, each useState reading its key of localStorage or
\* taking its default, and the first render and its effect follow.
pageLoad ==
    /\ reloadPending
    /\ criteria' = IF localStorage.set THEN localStorage.criteria ELSE DefaultCriteria
    /\ options' = IF localStorage.set THEN localStorage.options ELSE DefaultOptions
    /\ riskFactor' = IF localStorage.set THEN localStorage.risk ELSE DefaultRisk
    /\ decisionTitle' = AppTitle
    /\ pdf' = Idle
    /\ reloadPending' = FALSE
    /\ Rendered

\* criteria.filter(c => c.id !== id), options.filter(o => o.id !== id)
withoutId(arr, id) == SelectSeq(arr, LAMBDA e : e.id # id)

\* The delete button of a criterion's row.
deleteCriterion ==
    \E c \in 1..Len(criteria) :
       LET id == criteria[c].id
       IN  IF Len(criteria) <= 1
           THEN UNCHANGED vars
           ELSE /\ criteria' = withoutId(criteria, id)
                /\ options' =
                      mapSeq(options,
                             [i \in 1..Len(options) |->
                                [options[i] EXCEPT !.scores = withoutKey(@, id)]])
                /\ UNCHANGED <<riskFactor, decisionTitle, pdf, reloadPending>>
                /\ Rendered

\* The delete button of an option's row.
deleteOption ==
    \E o \in 1..Len(options) :
       IF Len(options) <= 1
       THEN UNCHANGED vars
       ELSE /\ options' = withoutId(options, options[o].id)
            /\ UNCHANGED <<criteria, riskFactor, decisionTitle, pdf, reloadPending>>
            /\ Rendered

\* Most fields edited away from the values they were created with, over
\* the states explored.
MaxEdits == 2

\* The values useState and the add handlers create a field with.
createdWeight(id) == IF id = 1 THEN 8 ELSE 5

createdCriterionName(id) == IF id = 1 THEN "Impact" ELSE "New Metric"

createdOptionName(id) == IF id = 101 THEN "Project A" ELSE "New Option"

createdScores(id) == IF id = 101 THEN (1 :> 7) ELSE <<>>

\* The number of fields that differ from the value they were created with:
\* weights, names, high-risk flags, entered scores and the risk factor.
edited ==
    Cardinality({ i \in 1..Len(criteria) :
                    criteria[i].weight # createdWeight(criteria[i].id) })
    + Cardinality({ i \in 1..Len(criteria) :
                      criteria[i].name # createdCriterionName(criteria[i].id) })
    + Cardinality({ i \in 1..Len(options) :
                      options[i].name # createdOptionName(options[i].id) })
    + Cardinality({ i \in 1..Len(options) : options[i].isHighRisk })
    + Cardinality({ cell \in (1..Len(options)) \X ({1} \cup Times) :
                      LET scores  == options[cell[1]].scores
                          created == createdScores(options[cell[1]].id)
                      IN  /\ cell[2] \in DOMAIN scores
                          /\ ~(/\ cell[2] \in DOMAIN created
                               /\ created[cell[2]] = scores[cell[2]]) })
    + (IF riskFactor # DefaultRisk THEN 1 ELSE 0)

\* The handlers of the controls drawn whatever the criteria list holds: the
\* reset button, and an add-criterion button in either branch of the page.
alwaysDrawn ==
    \/ addCriterion
    \/ resetData

\* The handlers that add and remove rows in the main grid.
rowHandlers ==
    \/ addOption
    \/ deleteCriterion
    \/ deleteOption

\* The handlers that edit a field of a row, and the risk slider.
fieldHandlers ==
    \/ updateScore
    \/ setWeight
    \/ setCriterionName
    \/ setOptionName
    \/ setHighRisk
    \/ SetRiskFactor

\* Every handler of the App that sets criteria, options or riskFactor, and
\* the page load after a reset.  The main grid, with the rows, the fields
\* and the risk slider, is drawn only when there is a criterion.  The
\* exploration goes on editing fields while fewer than MaxEdits are edited.
NextApp ==
    \/ alwaysDrawn
    \/ pageLoad
    \/ (criteria # <<>> /\ rowHandlers)
    \/ (criteria # <<>> /\ edited < MaxEdits /\ fieldHandlers)

SpecApp == InitApp /\ [][NextApp]_vars

\* ------------------------------------------------------------------------
\* Properties of the scorer.
\* ------------------------------------------------------------------------

\* x <= y on doubles.
FLe(x, y) == FSign(FSub(y, x)) >= 0

\* Position in the input list of the option with the given id.
inputIndex(id) == CHOOSE k \in 1..Len(options) : options[k].id = id

withScore(option, fs) ==
    [id |-> option.id, name |-> option.name, scores |-> option.scores,
     isHighRisk |-> option.isHighRisk, finalScore |-> fs]

\* C1: the results hold every option once, in non-increasing order of
\* finalScore, and options with equal finalScore keep the relative order they
\* have in the input list.
C1_SortedStable ==
    /\ Len(results) = Len(options)
    /\ \A i \in 1..Len(results) :
          \E k \in 1..Len(options) : results[i].id = options[k].id
    /\ \A i \in 1..(Len(results) - 1) :
          FLe(results[i + 1].finalScore, results[i].finalScore)
    /\ \A i, j \in 1..Len(results) :
          (i < j /\ results[i].finalScore = results[j].finalScore)
             => inputIndex(results[i].id) < inputIndex(results[j].id)

\* Two options with different score rows tie at a score above 0 after the
\* slider has moved.
C1_Witness ==
    /\ riskFactor # DefaultRisk
    /\ Len(results) = 2
    /\ results[1].finalScore = results[2].finalScore
    /\ FSign(results[1].finalScore) > 0
    /\ results[1].scores # results[2].scores

\* Ranges the interface gives to a weight, a score and the risk factor.
MinWeight == 1
MaxWeight == 10
MinScore == 0
MaxScore == 10
MinRisk == 0
MaxRisk == 30

ValidInputs ==
    /\ \A j \in 1..Len(criteria) : criteria[j].weight \in MinWeight..MaxWeight
    /\ \A i \in 1..Len(options) : \A id \in DOMAIN options[i].scores :
          options[i].scores[id] \in MinScore..MaxScore
    /\ riskFactor \in MinRisk..MaxRisk

\* C2: for valid inputs every finalScore lies in [0, 100].
C2_ScoreInRange ==
    ValidInputs =>
       \A i \in 1..Len(results) :
          /\ results[i].finalScore.sign = 0
          /\ FLe(results[i].finalScore, FFromInt(100))

\* Valid inputs with one option at exactly 100 and another at exactly 0.
C2_Witness ==
    /\ ValidInputs
    /\ \E i \in 1..Len(results) : results[i].finalScore = FFromInt(100)
    /\ \E i \in 1..Len(results) : results[i].finalScore = FZero

\* C3: when the weights sum to 0 the results are the options in input order,
\* each with finalScore 0 and its other fields unchanged.
C3_ZeroWeight ==
    totalWeight(criteria) = 0 =>
       results = [i \in 1..Len(options) |-> withScore(options[i], FZero)]

\* A criterion of weight 0, two options, one of them high risk with a score,
\* and the slider moved.
C3_Witness ==
    /\ criteria # <<>>
    /\ totalWeight(criteria) = 0
    /\ Len(results) = 2
    /\ \E i \in 1..2 : options[i].isHighRisk /\ options[i].scores # <<>>
    /\ riskFactor # DefaultRisk

\* C4: a move of the slider to a larger risk factor raises no finalScore,
\* and leaves the finalScore of every option not flagged high risk as it was.
C4_RiskMonotone ==
    [][ (riskFactor' > riskFactor /\ options' = options /\ criteria' = criteria)
          => \A i \in 1..Len(results) : \A j \in 1..Len(results') :
                results[i].id = results'[j].id =>
                   /\ FLe(results'[j].finalScore, results[i].finalScore)
                   /\ ~results[i].isHighRisk
                         => results'[j].finalScore = results[i].finalScore ]_vars

\* At the largest risk factor, a high-risk option scored below its base
\* score next to an option that is not high risk and scores above 0.
C4_Witness ==
    /\ riskFactor = MaxRisk
    /\ \E i \in 1..Len(results) :
          /\ results[i].isHighRisk
          /\ \E base \in {scoreOption(options[inputIndex(results[i].id)], criteria, 0)} :
                /\ results[i].finalScore # base.finalScore
                /\ FLe(results[i].finalScore, base.finalScore)
    /\ \E i \in 1..Len(results) :
          ~results[i].isHighRisk /\ FSign(results[i].finalScore) > 0

\* The claim's formula in exact arithmetic.  With S = sum(score * weight),
\* an absent score counted as 0, W = totalWeight and r = riskFactor for a
\* high-risk option, 0 otherwise:
\*   baseScore - penalty = (S / (W * 10)) * 100 * (1 - r / 100)
\*                       = S * (100 - r) / (W * 10),
\* so ten times max(0, baseScore - penalty) is the fraction
\* C5_Numerator / C5_Denominator below.
RECURSIVE C5_WeightedSum(_, _)
C5_WeightedSum(option, crit) ==
    IF crit = <<>> THEN 0
    ELSE (IF Head(crit).id \in DOMAIN option.scores
          THEN option.scores[Head(crit).id] ELSE 0) * Head(crit).weight
         + C5_WeightedSum(option, Tail(crit))

C5_Numerator(option, crit, rf) ==
    Max2(0, C5_WeightedSum(option, crit)
              * (100 - (IF option.isHighRisk THEN rf ELSE 0)))

C5_Denominator(crit) == totalWeight(crit)

\* The fraction num / den >= 0 rounded to the nearest integer, a half
\* rounded up.
C5_Round(num, den) == (2 * num + den) \div (2 * den)

\* C5 as stated: with a non-zero total weight, every finalScore is the
\* exact value of max(0, baseScore - penalty) rounded to one decimal, with
\* baseScore = sum(score * weight) / (totalWeight * 10) * 100 and
\* penalty = baseScore * riskFactor / 100 for a high-risk option, else 0.
C5_AsStated ==
    (ValidInputs /\ totalWeight(criteria) # 0) =>
       \A i \in 1..Len(results) :
          \E o \in {options[inputIndex(results[i].id)]} :
             toFixed1(results[i].finalScore)
                = C5_Round(C5_Numerator(o, criteria, riskFactor),
                           C5_Denominator(criteria))

\* What the code keeps of C5: every finalScore is a multiple of one tenth
\* nearest to the exact value (at most half a tenth away, so a value
\* halfway between two tenths may come out as either), and the claim's two
\* examples come out as 80.0 and 50.0.
C5_NearestTenth ==
    (ValidInputs /\ totalWeight(criteria) # 0) =>
       \A i \in 1..Len(results) :
          \E o \in {options[inputIndex(results[i].id)]} :
             \E n \in {toFixed1(results[i].finalScore)} :
                /\ results[i].finalScore = parseFloat1(n)
                /\ Abs(2 * C5_Numerator(o, criteria, riskFactor)
                         - 2 * n * C5_Denominator(criteria))
                      <= C5_Denominator(criteria)
                /\ (/\ Len(criteria) = 1 /\ criteria[1].weight = 8 /\ riskFactor = 20
                    /\ o.scores = (1 :> 10) /\ o.isHighRisk) => n = 800
                /\ (/\ Len(criteria) = 1 /\ criteria[1].weight = 8
                    /\ o.scores = (1 :> 5) /\ ~o.isHighRisk) => n = 500

\* The two examples side by side, at risk factor 20.
C5_Examples ==
    /\ Len(criteria) = 1 /\ criteria[1].weight = 8 /\ riskFactor = 20
    /\ Len(results) = 2
    /\ results[1].scores = (1 :> 10) /\ results[1].isHighRisk
    /\ toFixed1(results[1].finalScore) = 800
    /\ results[2].scores = (1 :> 5) /\ ~results[2].isHighRisk
    /\ toFixed1(results[2].finalScore) = 500

\* A finalScore below the rounded exact value: weights 1 and 7, scores 2
\* and 3, not high risk; the exact value is 28.75 and the finalScore 28.7.
C5_TieRoundedDown ==
    /\ Len(criteria) = 2 /\ criteria[1].weight = 1 /\ criteria[2].weight = 7
    /\ \E i \in 1..Len(results) :
          /\ results[i].scores = (1 :> 2) @@ (2 :> 3)
          /\ ~results[i].isHighRisk
          /\ toFixed1(results[i].finalScore) = 287

\* ------------------------------------------------------------------------
\* Properties of the narrative generator.
\* ------------------------------------------------------------------------

IsAnalysis == aiSummary.text = "Strategy Analysis"

\* C6: the insufficient-data message is returned whenever the winner is
\* null, its finalScore is 0 or fewer than two results are given, and a
\* different string in every other case.
C6_InsufficientData ==
    IF winner = null \/ Len(results) < 2 THEN aiSummary = InsufficientData
    ELSE IF winner.finalScore = FZero THEN aiSummary = InsufficientData
    ELSE aiSummary.text # InsufficientData.text

\* A single option with a high score, passed as winner.
C6_Witness ==
    /\ Len(results) = 1
    /\ winner = results[1]
    /\ FLe(FFromInt(50), winner.finalScore)
    /\ aiSummary = InsufficientData

\* C7: the margin printed is the winner's finalScore minus that of the
\* second result, to one decimal, and the warning clause prints the same
\* margin as the lead sentence.
C7_Margin ==
    IsAnalysis =>
       /\ aiSummary.margin = toFixed1(winner.finalScore) - toFixed1(results[2].finalScore)
       /\ aiSummary.risk.clause = "WARNING" => aiSummary.risk.margin = aiSummary.margin

\* A high-risk winner leading by 35.0.
C7_Witness ==
    /\ IsAnalysis
    /\ winner = results[1]
    /\ aiSummary.risk.clause = "WARNING"
    /\ aiSummary.margin = 350
    /\ aiSummary.risk.margin = 350

weightedScoreOf(j) == scoreOf(winner, criteria[j].id) * criteria[j].weight

\* The first criterion, in input order, whose weighted score is the largest.
firstMaximal ==
    CHOOSE j \in 1..Len(criteria) :
       /\ \A k \in 1..Len(criteria) : weightedScoreOf(k) <= weightedScoreOf(j)
       /\ \A k \in 1..(j - 1) : weightedScoreOf(k) < weightedScoreOf(j)

\* C8 as stated: the primary strength named is always the name of the first
\* criterion with the largest weighted score.
C8_AsStated ==
    (IsAnalysis /\ criteria # <<>>) =>
       aiSummary.primaryStrength = criteria[firstMaximal].name

\* C8: the primary strength named is the name of the first criterion with
\* the largest weighted score, or "key metrics" when that name is empty or
\* there is no criterion.
C8_PrimaryStrength ==
    IsAnalysis =>
       aiSummary.primaryStrength =
          IF criteria = <<>> THEN "key metrics"
          ELSE IF criteria[firstMaximal].name = "" THEN "key metrics"
          ELSE criteria[firstMaximal].name

\* Two criteria tie for the largest weighted score and the first is named.
C8_Witness ==
    /\ IsAnalysis
    /\ Len(criteria) = 2
    /\ weightedScoreOf(1) = weightedScoreOf(2)
    /\ weightedScoreOf(1) > 0
    /\ criteria[1].name # criteria[2].name
    /\ aiSummary.primaryStrength = criteria[1].name

\* C9 as stated: the warning for a high-risk winner, the lower-risk message
\* when only the runner-up is high risk, the neutral message when neither
\* or both are high risk.
C9_AsStated ==
    IsAnalysis =>
       /\ winner.isHighRisk => aiSummary.risk.clause = "WARNING"
       /\ (~winner.isHighRisk /\ results[2].isHighRisk)
             => aiSummary.risk.clause = "stable"
       /\ (winner.isHighRisk = results[2].isHighRisk)
             => aiSummary.risk.clause = "balanced"

\* C9: the warning, with the margin, whenever the winner is high risk; the
\* lower-risk message naming the runner-up when only the runner-up is high
\* risk; the neutral message when neither is high risk.
C9_RiskClause ==
    IsAnalysis =>
       aiSummary.risk =
          IF winner.isHighRisk
          THEN [clause |-> "WARNING", margin |-> aiSummary.margin, name |-> ""]
          ELSE IF results[2].isHighRisk
          THEN [clause |-> "stable", margin |-> 0, name |-> results[2].name]
          ELSE [clause |-> "balanced", margin |-> 0, name |-> ""]

\* Winner and runner-up both high risk: the warning is given.
C9_Witness ==
    /\ IsAnalysis
    /\ winner = results[1]
    /\ winner.isHighRisk
    /\ results[2].isHighRisk
    /\ aiSummary.risk.clause = "WARNING"

\* ------------------------------------------------------------------------
\* Properties of the exporter.
\* ------------------------------------------------------------------------

ConstructionSteps == {"new", "header", "card", "analysis", "table", "name"}

\* C10: no exception leaves exportToPDF; a call that ended after a fault has
\* logged it and shown the notice, and only such a call has; save is called
\* at most once, only with the whole document drawn and the file name built,
\* and never after a fault in construction.
C10_FailureContained ==
    /\ ~pdf.thrown
    /\ (pdf.pc = "done" /\ pdf.fault # "") => (pdf.logged /\ pdf.alerted)
    /\ (pdf.logged \/ pdf.alerted) => pdf.fault # ""
    /\ pdf.saveCalls <= 1
    /\ pdf.saveCalls = 1 =>
          /\ pdf.doc = <<"new", "header", "card", "analysis", "table">>
          /\ pdf.file = fileName(decisionTitle)
          /\ pdf.fault \in {"", "save"}
    /\ pdf.fault \in ConstructionSteps => pdf.saveCalls = 0

\* The table step threw: the call ended with the fault logged, the notice
\* shown and save never called.
C10_Witness ==
    /\ pdf.pc = "done"
    /\ pdf.fault = "table"
    /\ pdf.doc = <<"new", "header", "card", "analysis">>
    /\ pdf.logged /\ pdf.alerted
    /\ pdf.saveCalls = 0
    /\ ~pdf.thrown

\* ------------------------------------------------------------------------
\* Properties of the App's editing handlers.
\* ------------------------------------------------------------------------

\* C11 as stated: from the default state, after any sequence of adds,
\* deletes, score updates and weight changes, the criteria list and the
\* options list each keep at least one element and the total weight passed
\* to calculateScores is not 0.
C11_AsStated ==
    /\ Len(criteria) >= 1
    /\ Len(options) >= 1
    /\ totalWeight(criteria) # 0

uniqueIds(arr) ==
    \A i, j \in 1..Len(arr) : i # j => arr[i].id # arr[j].id

\* What the guards of the delete handlers do give: a list whose ids are all
\* different and that has an element still has one after any handler.
C11_UniqueIdsKeepOne ==
    [][ /\ (uniqueIds(criteria) /\ Len(criteria) >= 1) => Len(criteria') >= 1
        /\ (uniqueIds(options) /\ Len(options) >= 1) => Len(options') >= 1 ]_vars

====
